---- MODULE Spec2Model ----
(***************************************************************************)
(* The two-stage Recon -> Train rendering pipeline: the training Lambda    *)
(* (handler.py), the logs Lambda acting as DynamoDB-stream listener        *)
(* (logs/handler.py) and the Step Functions workflow that chains them      *)
(* (my_rendering_pipeline_stack.py).                                       *)
(*                                                                         *)
(* Every boto3 call is one step: a Lambda invocation is not atomic, so the *)
(* calls of concurrent invocations interleave.                             *)
(***************************************************************************)
EXTENDS Integers, Sequences, FiniteSets, TLC

\* ---------------------------------------------------------------- bounds
MaxUuids == 2       \* uuid4 values drawn: one per /start, one per
                    \* do_stage_logic call whose input holds no jobId
MaxStops == 2       \* /stop requests accepted

Ids == 1..MaxUuids

\* ------------------------------------------------------------ vocabulary
None == "None"      \* a missing attribute (dict.get default)
NoToken == 0        \* no taskToken attribute
NoName == <<>>      \* no sageMakerJobName attribute

\* An S3 location <<prefix, key pattern, jobId>> (jobId 0: a key that names
\* no job); NoRef: none
S3Uri(prefix, key, job_id) == <<prefix, key, job_id>>
NoRef == S3Uri("None", "None", 0)

\* f"{job_prefix}-job-{job_id}"
TrainingJobName(job_prefix, job_id) == <<job_prefix, job_id>>

Names == {TrainingJobName(p, i) : p \in {"recon", "train"}, i \in Ids}

\* $$.Task.Token of the WaitForReconCallback task of execution e
TaskToken(e) == e

\* The table item of a key with no item
NoItem ==
    [jobId |-> 0, stage |-> None, status |-> None,
     sageMakerJobName |-> NoName, outputBucket |-> None, taskToken |-> NoToken,
     outputRef |-> NoRef]

VARIABLES
    uuids,      \* how many uuid4 values have been drawn
    table,      \* DynamoDB-RenderingPipeline: jobId -> item
    stream,     \* the table's stream: the records written so far
    sm,         \* SageMaker: TrainingJobName -> state of the training job
    exec,       \* Step Functions: execution (by its input jobId) -> position
    stop,       \* the /stop invocation in flight (stop_job_logic's locals)
    stops,      \* how many /stop requests have been accepted
    reply,      \* the last answer of the logs Lambda's status path
    inputs,     \* history: TrainingJobName -> the S3Uri of the InputDataConfig
                \* create_training_job was called with
    launches,   \* history: <<job_id, action>> -> create_training_job returns
    ghost       \* history, sets of jobIds (read by the properties only):
                \*   resumed: send_task_success returned for the job's token
                \*   rejected: <<token, current>>: send_task_success raised
                \*     for the token; current: the token was the one in the
                \*     job's item at that time
                \*   stopped: a /stop answered 200
                \*   stoppedAwaiting: ... whose get_item read the token the
                \*     execution was waiting on
                \*   stoppedAfterRecon: ... whose update_item came after the
                \*     recon job had completed
                \*   trainAfter: <<jobId, k>>: create_training_job returned
                \*     for TRAIN when the job was already in the set named k
                \*   notFound (a flag): some /stop answered 400 "No matching
                \*     job found"

vars == <<uuids, table, stream, sm, exec, stop, stops, reply, inputs, launches, ghost>>

\* ------------------------------------------------------------- DynamoDB
\* (mutant) a put that merges: attributes the Item does not name survive
put_item_merge(tbl, item) ==
    [tbl EXCEPT ![item.jobId] = [item EXCEPT !.taskToken = tbl[item.jobId].taskToken]]

\* table.put_item(Item=...): replaces the whole item
put_item(tbl, item) == [tbl EXCEPT ![item.jobId] = item]

\* table.update_item(Key={"jobId": k}, "SET status = v"): an upsert that
\* leaves the item's other attributes alone
update_status(tbl, k, v) ==
    [tbl EXCEPT ![k] = [@ EXCEPT !.jobId = k, !.status = v]]

\* the same for the taskToken attribute
update_token(tbl, k, t) ==
    [tbl EXCEPT ![k] = [@ EXCEPT !.jobId = k, !.taskToken = t]]

\* The stream records a write adds: one per item that changed, with the
\* item's new image (StreamViewType.NEW_AND_OLD_IMAGES), kept to the three
\* attributes the listener reads
NewImage(item) ==
    [jobId |-> item.jobId, status |-> item.status, taskToken |-> item.taskToken]

StreamRecords(old, new) ==
    {[eventName |-> IF old[k].jobId = 0 THEN "INSERT" ELSE "MODIFY",
      NewImage |-> NewImage(new[k])] : k \in {i \in Ids : old[i] # new[i]}}

\* -------------------------------------------------- Step Functions tasks
\* payload of each LambdaInvoke task; input: whether the payload carries
\* the execution state ("input.$": "$"), which holds the jobId
recon_task == [action |-> "RECON", input |-> TRUE]
update_token_task == [action |-> "UPDATE_TOKEN", input |-> FALSE]
train_task == [action |-> "TRAIN", input |-> TRUE]

Payload(state) ==
    CASE state = "RunReconStage" -> recon_task
      [] state = "UpdateTaskToken" -> update_token_task
      [] state = "RunTrainStage" -> train_task

LambdaStates == {"RunReconStage", "UpdateTaskToken", "RunTrainStage"}

\* (mutant) a chain that ends in train_task.next(train_task)
definition_loop(state) ==
    CASE state = "RunReconStage" -> "UpdateTaskToken"
      [] state = "UpdateTaskToken" -> "WaitForReconCallback"
      [] state = "WaitForReconCallback" -> "RunTrainStage"
      [] state = "RunTrainStage" -> "RunTrainStage"
      [] OTHER -> state

\* recon_task.next(update_token_task).next(wait_for_callback).next(train_task)
definition(state) ==
    CASE state = "RunReconStage" -> "UpdateTaskToken"
      [] state = "UpdateTaskToken" -> "WaitForReconCallback"
      [] state = "WaitForReconCallback" -> "RunTrainStage"
      [] state = "RunTrainStage" -> "SUCCEEDED"
      [] OTHER -> state

Idle == [state |-> "none", phase |-> "none", job_id |-> 0]

\* ------------------------------------------------------------------ Init
\* awaiting (history): the item read held the token its execution waited on
NoStop == [pc |-> "idle", job_id |-> 0, item |-> NoItem, awaiting |-> FALSE]

\* no status request answered yet
NoReply == [statusCode |-> 0, dbStatus |-> None, sageMakerJobDescription |-> None]

Init ==
    /\ uuids = 0
    /\ table = [i \in Ids |-> NoItem]
    /\ stream = {}
    /\ sm = [n \in Names |-> "None"]
    /\ exec = [i \in Ids |-> Idle]
    /\ stop = NoStop
    /\ stops = 0
    /\ reply = NoReply
    /\ inputs = [n \in Names |-> NoRef]
    /\ launches = [k \in Ids \X {"RECON", "UPDATE_TOKEN", "TRAIN"} |-> 0]
    /\ ghost = [resumed |-> {}, rejected |-> {}, stopped |-> {},
                stoppedAwaiting |-> {}, stoppedAfterRecon |-> {},
                trainAfter |-> {}, notFound |-> FALSE]

\* ---------------------------------------------------------------- /start
\* start_job_logic: draws the jobId and starts the execution with it
start_job_logic ==
    /\ uuids < MaxUuids
    /\ uuids' = uuids + 1
    /\ exec' = [exec EXCEPT ![uuids + 1] =
                    [state |-> "RunReconStage", phase |-> "create", job_id |-> 0]]
    /\ UNCHANGED <<table, stream, sm, stop, stops, reply, inputs, launches, ghost>>

\* -------------------------------------------------------- do_stage_logic
\* input_payload.get("jobId", str(uuid.uuid4())): the execution's jobId when
\* the payload carries the execution state, a fresh uuid otherwise
job_id_of(payload, e, fresh) == IF payload.input THEN e ELSE fresh

\* job_prefix: "recon" for RECON, "train" for every other action
job_prefix(action) == IF action = "RECON" THEN "recon" ELSE "train"

\* output_s3_uri
output_s3_uri(action) == IF action = "RECON" THEN "recon-outputs" ELSE "models"

\* input_s3_uri: the user's archive (the execution input names none, so the
\* default "my-training-data") for RECON; for every other action the key
\* f"{job_id}-RECON-output" under recon-outputs/ of the recon bucket
input_s3_uri(action, job_id) ==
    IF action = "RECON"
    THEN S3Uri("user-submissions", "my-training-data", 0)
    ELSE S3Uri("recon-outputs", "{job_id}-RECON-output", job_id)

\* the Item do_stage_logic puts
StageItem(job_id, action) ==
    [jobId |-> job_id, stage |-> action, status |-> "IN_PROGRESS",
     sageMakerJobName |-> TrainingJobName(job_prefix(action), job_id),
     outputBucket |-> output_s3_uri(action), taskToken |-> NoToken,
     outputRef |-> NoRef]

\* (mutant) a do_stage_logic that puts its Item first and launches second
do_stage_put_first(e) ==
    /\ exec[e].state \in LambdaStates
    /\ exec[e].phase = "create"
    /\ LET payload == Payload(exec[e].state)
           action == payload.action
           job_id == job_id_of(payload, e, uuids + 1)
           name == TrainingJobName(job_prefix(action), job_id)
       IN /\ payload.input \/ uuids < MaxUuids
          /\ uuids' = IF payload.input THEN uuids ELSE uuids + 1
          /\ table' = put_item(table, StageItem(job_id, action))
          /\ stream' = stream \cup StreamRecords(table, table')
          /\ \E ok \in BOOLEAN :
                IF ok
                THEN /\ sm' = [sm EXCEPT ![name] = "InProgress"]
                     /\ inputs' = [inputs EXCEPT ![name] = input_s3_uri(action, job_id)]
                     /\ launches' = [launches EXCEPT ![<<job_id, action>>] = @ + 1]
                     /\ exec' = [exec EXCEPT ![e].phase = "put", ![e].job_id = job_id]
                     /\ UNCHANGED ghost
                ELSE /\ exec' = [exec EXCEPT ![e] =
                                    [state |-> "FAILED", phase |-> "none", job_id |-> 0]]
                     /\ UNCHANGED <<sm, inputs, launches, ghost>>
    /\ UNCHANGED <<stop, stops, reply>>

\* handler -> do_stage_logic up to sagemaker.create_training_job, which
\* returns (ok) or raises; a raise fails the Lambda task and the execution
do_stage_create(e) ==
    /\ exec[e].state \in LambdaStates
    /\ exec[e].phase = "create"
    /\ LET payload == Payload(exec[e].state)
           action == payload.action
           job_id == job_id_of(payload, e, uuids + 1)
           name == TrainingJobName(job_prefix(action), job_id)
       IN /\ payload.input \/ uuids < MaxUuids
          /\ uuids' = IF payload.input THEN uuids ELSE uuids + 1
          /\ \E ok \in BOOLEAN :
                IF ok
                THEN /\ sm' = [sm EXCEPT ![name] = "InProgress"]
                     /\ inputs' = [inputs EXCEPT ![name] = input_s3_uri(action, job_id)]
                     /\ launches' = [launches EXCEPT ![<<job_id, action>>] = @ + 1]
                     /\ exec' = [exec EXCEPT ![e].phase = "put", ![e].job_id = job_id]
                     /\ ghost' = IF action = "TRAIN"
                                 THEN [ghost EXCEPT !.trainAfter = @ \cup
                                        {<<job_id, k>> : k \in
                                            {k \in {"stopped", "stoppedAwaiting",
                                                    "stoppedAfterRecon"} :
                                                job_id \in ghost[k]}}]
                                 ELSE ghost
                ELSE /\ exec' = [exec EXCEPT ![e] =
                                    [state |-> "FAILED", phase |-> "none", job_id |-> 0]]
                     /\ UNCHANGED <<sm, inputs, launches, ghost>>
    /\ UNCHANGED <<table, stream, stop, stops, reply>>

\* do_stage_logic from table.put_item to its return; the task succeeds and
\* the execution moves on
do_stage_put(e) ==
    /\ exec[e].state \in LambdaStates
    /\ exec[e].phase = "put"
    /\ LET action == Payload(exec[e].state).action
           next == definition(exec[e].state)
       IN /\ table' = put_item(table, StageItem(exec[e].job_id, action))
          /\ stream' = stream \cup StreamRecords(table, table')
          /\ exec' = [exec EXCEPT ![e] =
                        [state |-> next,
                         phase |-> IF next \in LambdaStates THEN "create" ELSE "none",
                         job_id |-> 0]]
    /\ UNCHANGED <<uuids, sm, stop, stops, reply, inputs, launches, ghost>>

\* ------------------------------------------------- logs handler (stream)
\* (mutant) a test of the token alone: any write to an item holding a token
\* resumes
callback_due_any_status(record) ==
    /\ record.eventName \in {"INSERT", "MODIFY"}
    /\ record.NewImage.taskToken # NoToken

\* the listener's test of one stream record: eventName in [INSERT, MODIFY],
\* status == "COMPLETED_RECON" and a truthy taskToken
callback_due(record) ==
    /\ record.eventName \in {"INSERT", "MODIFY"}
    /\ record.NewImage.status = "COMPLETED_RECON"
    /\ record.NewImage.taskToken # NoToken

\* the executions a token resumes: those waiting in WaitForReconCallback on
\* exactly this token (a task token is single-use)
Waiting(ex, token) ==
    {e \in Ids : ex[e].state = "WaitForReconCallback" /\ TaskToken(e) = token}

\* (mutant) a resume that starts RunTrainStage for the token's execution
\* whether or not it is still waiting on the token
send_task_success_reusable(ex, token) ==
    [e \in Ids |->
        IF TaskToken(e) = token /\ ex[e].state # "none"
        THEN [state |-> "RunTrainStage", phase |-> "create", job_id |-> 0]
        ELSE ex[e]]

\* stepfunctions.send_task_success(taskToken=...) inside try/except: the
\* waiting execution moves on; for any other token the call raises, the
\* handler prints the error and nothing changes
send_task_success(ex, token) ==
    [e \in Ids |->
        IF e \in Waiting(ex, token)
        THEN [state |-> definition(ex[e].state), phase |-> "create", job_id |-> 0]
        ELSE ex[e]]

\* handler({"Records": [record]}): the loop body for one record
handle_record(record) ==
    /\ IF callback_due(record)
       THEN /\ exec' = send_task_success(exec, record.NewImage.taskToken)
            /\ ghost' = IF Waiting(exec, record.NewImage.taskToken) # {}
                        THEN [ghost EXCEPT !.resumed =
                                @ \cup Waiting(exec, record.NewImage.taskToken)]
                        ELSE [ghost EXCEPT !.rejected = @ \cup
                                {<<record.NewImage.taskToken,
                                   record.NewImage.taskToken =
                                       table[record.NewImage.jobId].taskToken>>}]
       ELSE UNCHANGED <<exec, ghost>>
    /\ UNCHANGED <<uuids, table, stream, sm, stop, stops, reply, inputs, launches>>

\* the event source: batch_size = 1, delivered at least once, so a record
\* of the stream can be handed over again at any later time
stream_handler(record) ==
    /\ record \in stream
    /\ handle_record(record)

\* ------------------------------------------------- logs handler (status)
\* (mutant) a read of the wrong attribute: result["Item"].get("stage", ...)
job_status_in_db_stage(tbl, job_id) ==
    IF tbl[job_id].jobId = 0 \/ tbl[job_id].stage = None
    THEN "UNKNOWN" ELSE tbl[job_id].stage

\* job_status_in_db: "UNKNOWN" without an Item or without a status in it
job_status_in_db(tbl, job_id) ==
    IF tbl[job_id].jobId = 0 \/ tbl[job_id].status = None
    THEN "UNKNOWN" ELSE tbl[job_id].status

\* sagemaker.describe_training_job(TrainingJobName=name) inside try/except
\* ClientError: the job's state, or the error for a name SageMaker has not
describe_training_job(name) ==
    IF name \in DOMAIN sm /\ sm[name] # "None" THEN sm[name] ELSE "error"

\* handler(event) without "Records": 400 without a jobId (job_id 0), else
\* get_item, describe_training_job(f"nerf-training-{job_id}") and 200
status_handler(job_id) ==
    /\ reply = NoReply
    /\ reply' =
          IF job_id = 0
          THEN [statusCode |-> 400, dbStatus |-> None,
                sageMakerJobDescription |-> None]
          ELSE [statusCode |-> 200,
                dbStatus |-> job_status_in_db(table, job_id),
                sageMakerJobDescription |->
                    describe_training_job(TrainingJobName("nerf-training", job_id))]
    /\ UNCHANGED <<uuids, table, stream, sm, exec, stop, stops, inputs, launches, ghost>>

\* return {...}: the answer leaves the Lambda
status_return ==
    /\ reply # NoReply
    /\ reply' = NoReply
    /\ UNCHANGED <<uuids, table, stream, sm, exec, stop, stops, inputs, launches, ghost>>

\* ----------------------------------------------------------------- /stop
\* (mutant) a test "item is None" of response.get("Item", {}): never true
no_matching_job_is_none(tbl, job_id) == FALSE

\* item = response.get("Item", {}); not item.get("sageMakerJobName", None)
no_matching_job(tbl, job_id) == tbl[job_id].sageMakerJobName = NoName

\* stop_job_logic up to table.get_item: 400 without a jobId or without a
\* sageMakerJobName in the item; job_id 0 is a body with no jobId
stop_get_item(job_id) ==
    /\ stop.pc = "idle"
    /\ stops < MaxStops
    /\ stops' = stops + 1
    /\ IF job_id = 0
       THEN /\ stop' = NoStop
            /\ UNCHANGED ghost
       ELSE IF no_matching_job(table, job_id)
       THEN /\ stop' = NoStop
            /\ ghost' = [ghost EXCEPT !.notFound = TRUE]
       ELSE /\ stop' = [pc |-> "stop_training_job", job_id |-> job_id,
                        item |-> table[job_id],
                        awaiting |-> /\ table[job_id].taskToken # NoToken
                                     /\ job_id \in Waiting(exec, table[job_id].taskToken)]
            /\ UNCHANGED ghost
    /\ UNCHANGED <<uuids, table, stream, sm, exec, reply, inputs, launches>>

\* sagemaker.stop_training_job(TrainingJobName=item name): returns (a job
\* in progress stops) or raises, which answers 500
stop_training_job ==
    /\ stop.pc = "stop_training_job"
    /\ \E ok \in BOOLEAN :
          IF ok
          THEN /\ sm' = [sm EXCEPT ![stop.item.sageMakerJobName] =
                            IF @ = "InProgress" THEN "Stopped" ELSE @]
               /\ stop' = [stop EXCEPT !.pc = "update_item"]
          ELSE /\ stop' = NoStop
               /\ UNCHANGED sm
    /\ UNCHANGED <<uuids, table, stream, exec, stops, reply, inputs, launches, ghost>>

\* (mutant) an update with no Key: every item there is gets the status
stop_write_scan(tbl, job_id, item) ==
    [k \in Ids |-> IF tbl[k].jobId # 0 THEN [tbl[k] EXCEPT !.status = "STOPPING"]
                   ELSE tbl[k]]

\* the write stop_job_logic makes: SET #s = "STOPPING", no condition
stop_write(tbl, job_id, item) == update_status(tbl, job_id, "STOPPING")

\* table.update_item(...) and the 200 answer
stop_update_item ==
    /\ stop.pc = "update_item"
    /\ table' = stop_write(table, stop.job_id, stop.item)
    /\ stream' = stream \cup StreamRecords(table, table')
    /\ stop' = NoStop
    /\ ghost' = [ghost EXCEPT
                    !.stopped = @ \cup {stop.job_id},
                    !.stoppedAwaiting = @ \cup
                        (IF stop.awaiting THEN {stop.job_id} ELSE {}),
                    !.stoppedAfterRecon = @ \cup
                        (IF sm[TrainingJobName("recon", stop.job_id)] = "Completed"
                         THEN {stop.job_id} ELSE {})]
    /\ UNCHANGED <<uuids, sm, exec, stops, reply, inputs, launches>>

\* ------------------------------------------------- writers outside the core
\* The taskToken is "stored in the DB when the Step Functions wait started"
StoreTaskToken(e) ==
    /\ exec[e].state = "WaitForReconCallback"
    /\ table[e].taskToken = NoToken
    /\ table' = update_token(table, e, TaskToken(e))
    /\ stream' = stream \cup StreamRecords(table, table')
    /\ UNCHANGED <<uuids, sm, exec, stop, stops, reply, inputs, launches, ghost>>

\* where SageMaker puts the output of a training job: under the job's name
\* in the S3OutputPath it was created with
S3Output(prefix, job_id) ==
    S3Uri(output_s3_uri(IF prefix = "recon" THEN "RECON" ELSE "TRAIN"),
          "{job_prefix}-job-{job_id}/output", job_id)

\* the completion write: status, and outputRef for the recon stage
update_completion(tbl, prefix, job_id) ==
    [tbl EXCEPT ![job_id] =
        [@ EXCEPT !.jobId = job_id,
                  !.status = IF prefix = "recon" THEN "COMPLETED_RECON" ELSE "COMPLETED",
                  !.outputRef = IF prefix = "recon"
                                THEN S3Output(prefix, job_id) ELSE @]]

\* A stage's training job in progress ends and its completion is written to
\* the job's item: COMPLETED_RECON and the outputRef for a recon job,
\* COMPLETED for a train job. A training job outlasts the invocation that launched it: it ends
\* after that invocation's put_item.
JobCompletes(prefix, job_id) ==
    /\ sm[TrainingJobName(prefix, job_id)] = "InProgress"
    /\ launches[<<job_id, IF prefix = "recon" THEN "RECON" ELSE "TRAIN">>] > 0
    /\ \A e \in Ids : ~(exec[e].phase = "put" /\ exec[e].job_id = job_id)
    /\ sm' = [sm EXCEPT ![TrainingJobName(prefix, job_id)] = "Completed"]
    /\ table' = update_completion(table, prefix, job_id)
    /\ stream' = stream \cup StreamRecords(table, table')
    /\ UNCHANGED <<uuids, exec, stop, stops, reply, inputs, launches, ghost>>

Next ==
    \/ start_job_logic
    \/ \E e \in Ids : do_stage_create(e)
    \/ \E e \in Ids : do_stage_put(e)
    \/ \E record \in stream : stream_handler(record)
    \/ \E job_id \in {0} \cup Ids : stop_get_item(job_id)
    \/ stop_training_job
    \/ stop_update_item
    \/ \E e \in Ids : StoreTaskToken(e)
    \/ \E prefix \in {"recon", "train"}, job_id \in Ids : JobCompletes(prefix, job_id)

Spec == Init /\ [][Next]_vars

\* The pipeline with the status requests of its clients. An answer is an
\* output that no other operation reads, so the other operations are held
\* until it has left: this drops no behaviour of the pipeline.
StatusNext ==
    \/ reply = NoReply /\ Next
    \/ \E job_id \in {0} \cup Ids : status_handler(job_id)
    \/ status_return

StatusSpec == Init /\ [][StatusNext]_vars

\* The stream records the listener can be handed: the new image of any
\* write to a job's item (with the token of the job's execution or with
\* none), or the REMOVE of an item (which has no NewImage: new_image = {}
\* reads as the image of no item)
Records ==
    {[eventName |-> eventName,
      NewImage |-> [jobId |-> job_id, status |-> status,
                    taskToken |-> IF token THEN TaskToken(job_id) ELSE NoToken]] :
        eventName \in {"INSERT", "MODIFY"},
        job_id \in Ids,
        status \in {None, "IN_PROGRESS", "COMPLETED_RECON"},
        token \in BOOLEAN}
    \cup {[eventName |-> "REMOVE", NewImage |-> NewImage(NoItem)]}

\* The stage launches and the listener with a table that other writers
\* write too and whose items expire: the listener is handed any record
\* whose token, if any, is the one of the job's execution
ListenerNext ==
    \/ start_job_logic
    \/ \E e \in Ids : do_stage_create(e)
    \/ \E e \in Ids : do_stage_put(e)
    \/ \E e \in Ids : StoreTaskToken(e)
    \/ \E prefix \in {"recon", "train"}, job_id \in Ids : JobCompletes(prefix, job_id)
    \/ \E record \in Records : handle_record(record)

ListenerSpec == Init /\ [][ListenerNext]_vars

\* ------------------------------------------------------------ vocabulary
\* of the properties
Stages == {"RECON", "TRAIN"}

\* the record shows a stopped job: "STOPPING" is the status /stop writes
\* (no code writes "STOPPED")
Stopped(j) == table[j].status \in {"STOPPING", "STOPPED"}

TrainLaunched(j) == launches[<<j, "TRAIN">>] > 0

Ended(e) == exec[e].state \in {"SUCCEEDED", "FAILED"}

\* the execution is suspended in WaitForReconCallback
Suspended(e) == exec[e].state = "WaitForReconCallback"

\* ---------------------------------------------------------------- C1
\* C1: when a /stop whose read saw the job suspended with its token and a
\* valid resume (send_task_success accepted for that token) have both taken
\* place for a job, then once the execution has ended and the stop has
\* answered, exactly one holds: the job is stopped and Train was never
\* launched, or Train was launched and the job is not stopped.
C1_StopXorTrain ==
    \A j \in Ids :
        (j \in ghost.stoppedAwaiting /\ j \in ghost.resumed /\ Ended(j)
            /\ stop.pc = "idle")
        => (Stopped(j) /\ ~TrainLaunched(j)) # (TrainLaunched(j) /\ ~Stopped(j))

\* ---------------------------------------------------------------- C2
\* C2: for every jobId and each of the stages RECON and TRAIN,
\* create_training_job returns at most once, redelivered stream records
\* included.
C2_AtMostOneLaunch ==
    \A j \in Ids, stage \in Stages : launches[<<j, stage>>] <= 1

\* C2's case: the job was resumed, Train was launched, and the record with
\* the same token was delivered again (send_task_success raised for it)
C2_Redelivered ==
    \E j \in Ids :
        /\ j \in ghost.resumed
        /\ launches[<<j, "TRAIN">>] = 1
        /\ \E current \in BOOLEAN : <<TaskToken(j), current>> \in ghost.rejected

\* ---------------------------------------------------------------- C3
\* C3: once an item's status is terminal (COMPLETED, STOPPED, FAILED, or
\* the STOPPING that /stop writes), no step changes its status or stage.
TerminalStatuses == {"COMPLETED", "STOPPED", "STOPPING", "FAILED"}

C3_TerminalSticky ==
    [][\A j \in Ids :
          table[j].status \in TerminalStatuses
          => /\ table'[j].status = table[j].status
             /\ table'[j].stage = table[j].stage]_vars

\* ---------------------------------------------------------------- C4
\* C4: in every reachable state an item holds a taskToken if and only if
\* its job is suspended awaiting the callback; no item whose status is
\* stopping/stopped, completed or failed holds one.
C4_TokenIffAwaiting ==
    \A j \in Ids :
        (table[j].taskToken # NoToken)
        <=> (Suspended(j) /\ table[j].status \notin TerminalStatuses)

\* ---------------------------------------------------------------- C5
\* C5: the delivery of a stream record whose token is not the token now in
\* the job's item, or whose token was already consumed by a resume, changes
\* no item, no execution and no training job, and launches nothing.
C5_StaleTokenNoOp ==
    [][\A record \in stream :
          (/\ stream_handler(record)
           /\ callback_due(record)
           /\ \/ record.NewImage.taskToken # table[record.NewImage.jobId].taskToken
              \/ record.NewImage.jobId \in ghost.resumed)
          => UNCHANGED <<table, exec, sm, launches>>]_vars

\* C5's case: a due record was delivered when its token was no longer the
\* one in the job's item
C5_StaleDelivered ==
    \E record \in stream :
        /\ callback_due(record)
        /\ <<record.NewImage.taskToken, FALSE>> \in ghost.rejected

\* ---------------------------------------------------------------- C6
\* C6: when the execution is suspended after the RECON launch, the job's
\* item has stage RECON and holds a non-empty taskToken, and no launch other
\* than the job's RECON launch has happened on the way.
C6_SuspendedWithToken ==
    \A e \in Ids :
        Suspended(e)
        => /\ table[e].stage = "RECON"
           /\ table[e].taskToken # NoToken
           /\ launches[<<e, "TRAIN">>] = 0
           /\ \A i \in Ids : launches[<<i, "UPDATE_TOKEN">>] = 0

\* ---------------------------------------------------------------- C7
\* Every Lambda invocation Step Functions makes runs to its end
FairSpec ==
    /\ Spec
    /\ \A e \in Ids : WF_vars(do_stage_create(e)) /\ WF_vars(do_stage_put(e))

\* Train was launched once and the item shows it running, without a token
TrainRunning(j) ==
    /\ launches[<<j, "TRAIN">>] = 1
    /\ table[j].stage = "TRAIN"
    /\ table[j].status = "IN_PROGRESS"
    /\ table[j].taskToken = NoToken

\* The resume was accepted: the execution has left the wait for RunTrainStage
Resuming(j) == j \in ghost.resumed /\ exec[j].state = "RunTrainStage"

C8_StopInvalidatesToken ==
    \A j \in ghost.stoppedAwaiting :
        /\ table[j].taskToken = NoToken
        /\ Stopped(j)
        /\ sm[TrainingJobName("recon", j)] # "InProgress"
        /\ <<j, "stoppedAwaiting">> \notin ghost.trainAfter

\* ---------------------------------------------------------------- C9
\* C9: after a /stop whose update came after the recon job had completed
\* has answered 200, no Train launch happens for the job.
C9_NoTrainAfterStop ==
    \A j \in ghost.stoppedAfterRecon :
        <<j, "stoppedAfterRecon">> \notin ghost.trainAfter

\* ---------------------------------------------------------------- C10
\* C10: a write by /stop whose item has changed since its get_item (a stage
\* launch write or a completion write came in between) does not take effect.
C10_NoStaleOverwrite ==
    [][(stop.pc = "update_item" /\ stop'.pc = "idle"
            /\ table[stop.job_id] # stop.item)
       => table' = table]_vars

\* ---------------------------------------------------------------- C11
\* C11: when sagemaker.stop_training_job raises during a /stop of a job
\* whose item is not terminal, the step that ends the invocation still
\* leaves the item stopped (it answers without an error).
C11_StopSurvivesRaise ==
    [][(/\ stop.pc = "stop_training_job"
        /\ stop'.pc = "idle"
        /\ table[stop.job_id].status \notin TerminalStatuses)
       => table'[stop.job_id].status \in {"STOPPING", "STOPPED"}]_vars

\* ---------------------------------------------------------------- C12
\* C12: when create_training_job raised for RECON (the execution has failed
\* without a RECON launch), the job's item has status FAILED (with the
\* errorDetail that goes with it) and names no training job.
C12_FailedLaunchRecorded ==
    \A e \in Ids :
        (exec[e].state = "FAILED" /\ launches[<<e, "RECON">>] = 0)
        => /\ table[e].status = "FAILED"
           /\ table[e].sageMakerJobName = NoName

\* ---------------------------------------------------------------- C13
\* C13: a /stop for a jobId that has no item answers 400 "No matching job
\* found" at its get_item: the invocation ends there, so it calls no
\* stop_training_job, and the step changes no item (none is created), no
\* stream record and no training job.
C13_StopUnknownJob ==
    [][\A j \in Ids :
          (stop_get_item(j) /\ table[j] = NoItem)
          => /\ ghost'.notFound
             /\ stop'.pc = "idle"
             /\ UNCHANGED <<table, stream, sm>>]_vars

\* C13's case: a /stop was answered "not found" (and there is a jobId that
\* still has no item)
C13_UnknownStopped ==
    ghost.notFound /\ \E j \in Ids : table[j] = NoItem

\* ---------------------------------------------------------------- C14
\* C14: a status request for a jobId that has no item is not answered with
\* a successful (200) status response.
C14_StatusUnknownJob ==
    [][\A j \in Ids :
          (status_handler(j) /\ table[j] = NoItem) => reply'.statusCode # 200]_vars

\* ---------------------------------------------------------------- C15
\* C15: the S3Uri create_training_job is called with for TRAIN is the
\* outputRef the job's item holds at that time (the one the completion of
\* RECON wrote).
C15_TrainInputIsOutputRef ==
    [][\A j \in Ids :
          launches'[<<j, "TRAIN">>] > launches[<<j, "TRAIN">>]
          => inputs'[TrainingJobName("train", j)] = table[j].outputRef]_vars

\* ---------------------------------------------------------------- C16
\* C16: the stage of every item is RECON or TRAIN; an item whose stage is
\* TRAIN never goes back to another stage; and Train is launched for a job
\* only when its recon job has completed.
C16_StageForwardOnly ==
    /\ [](\A j \in Ids : table[j].jobId # 0 => table[j].stage \in Stages)
    /\ [](\A j \in Ids :
            TrainLaunched(j) => sm[TrainingJobName("recon", j)] = "Completed")
    /\ [][\A j \in Ids :
            table[j].stage = "TRAIN" => table'[j].stage = "TRAIN"]_vars

\* ---------------------------------------------------------------- C17
\* the items other than the one keyed k are left as they are
OthersUnchanged(k) == \A i \in Ids \ {k} : table'[i] = table[i]

\* C17: every step of an operation for one jobId leaves the items of all
\* other jobIds unchanged, whatever else is in flight: a stage launch writes
\* only the item of the jobId it runs under (never the item of another
\* submitted job), a /stop reads and writes only the item it was asked for,
\* and the delivery of a job's stream record writes no item and moves no
\* other job's execution.
C17_JobsIndependent ==
    [][/\ \A e \in Ids :
            \* do_stage_logic of execution e: create_training_job, put_item
            /\ (exec[e].phase = "create" /\ exec'[e] # exec[e]) => table' = table
            /\ (exec[e].phase = "put" /\ exec'[e] # exec[e])
               => /\ OthersUnchanged(exec[e].job_id)
                  /\ \A k \in Ids \ {e} :
                        exec[k].state # "none" => table'[k] = table[k]
            \* the listener's send_task_success for e's token
            /\ (Suspended(e) /\ exec'[e] # exec[e])
               => /\ table' = table
                  /\ \A k \in Ids \ {e} : exec'[k] = exec[k]
       \* stop_job_logic: get_item, stop_training_job, update_item
       /\ (stop.pc = "idle" /\ stop'.pc # "idle")
          => /\ table' = table
             /\ stop'.item = table[stop'.job_id]
       /\ (stop.pc = "stop_training_job" /\ stop' # stop)
          => /\ table' = table
             /\ \A n \in Names \ {stop.item.sageMakerJobName} : sm'[n] = sm[n]
       /\ (stop.pc = "update_item" /\ stop' # stop)
          => OthersUnchanged(stop.job_id)]_vars

\* C17's case: two jobs have items, a /stop answered 200 for one of them and
\* the other's item still shows it in progress
C17_TwoJobs ==
    \E j, k \in Ids :
        /\ j # k
        /\ j \in ghost.stopped
        /\ table[j].status = "STOPPING"
        /\ exec[k].state # "none"
        /\ table[k].status = "IN_PROGRESS"

\* ---------------------------------------------------------------- C18
\* send_task_success was called with the token (it returned or it raised),
\* by the history g
Sent(g, token) ==
    \/ \E e \in g.resumed : TaskToken(e) = token
    \/ \E current \in BOOLEAN : <<token, current>> \in g.rejected

\* C18: handed a record, the listener calls send_task_success with the
\* record's token when the eventName is INSERT or MODIFY, the new image's
\* status is COMPLETED_RECON and its taskToken is non-empty; for every other
\* record (a REMOVE, another status, no token) it does nothing; and it never
\* writes to the table.
C18_ListenerDecision ==
    [][\A record \in Records :
          handle_record(record)
          => /\ table' = table
             /\ stream' = stream
             /\ IF /\ record.eventName \in {"INSERT", "MODIFY"}
                   /\ record.NewImage.status = "COMPLETED_RECON"
                   /\ record.NewImage.taskToken # NoToken
                THEN Sent(ghost', record.NewImage.taskToken)
                ELSE UNCHANGED <<exec, sm, launches, ghost>>]_vars

\* C18's case: a call was made and accepted after the listener had also
\* been handed what it must ignore (the execution is resumed although no
\* recon job of its job completed: the record came from another writer)
C18_Resumed ==
    \E e \in ghost.resumed :
        /\ sm[TrainingJobName("recon", e)] # "Completed"
        /\ \E current \in BOOLEAN : <<TaskToken(e), current>> \in ghost.rejected

\* ---------------------------------------------------------------- C19
\* C19: every training job do_stage_logic launched and every item it put is
\* for a jobId that /start assigned (the jobId of an execution) and for the
\* action RECON or TRAIN: an invocation with any other action, or without a
\* jobId in its input, launches nothing and puts no item under a new jobId.
C19_OnlySubmittedStages ==
    /\ \A i \in Ids, action \in {"RECON", "UPDATE_TOKEN", "TRAIN"} :
          launches[<<i, action>>] > 0
          => action \in Stages /\ exec[i].state # "none"
    /\ \A i \in Ids :
          table[i].stage # None
          => table[i].stage \in Stages /\ exec[i].state # "none"

\* ---------------------------------------------------------------- C20
\* C20: in do_stage_logic the launch comes before the write: an item names
\* a training job only if create_training_job has returned for that name,
\* and the step in which create_training_job raises changes no item and
\* adds no stream record.
C20_LaunchBeforeWrite ==
    /\ [](\A i \in Ids :
            table[i].sageMakerJobName # NoName
            => sm[table[i].sageMakerJobName] # "None")
    /\ [][\A e \in Ids :
            (do_stage_create(e) /\ exec'[e].state = "FAILED")
            => table' = table /\ stream' = stream]_vars

\* C20's case: a launch raised (the execution failed before its Train
\* launch) and the job's item is still the one its RECON invocation put
C20_LaunchRaised ==
    \E e \in Ids :
        /\ exec[e].state = "FAILED"
        /\ launches[<<e, "RECON">>] = 1
        /\ launches[<<e, "TRAIN">>] = 0
        /\ table[e].sageMakerJobName = TrainingJobName("recon", e)

\* ---------------------------------------------------------------- C21
\* C21: a status request is read-only and truthful: a step that gives an
\* answer changes no item, no stream record, no training job, no execution
\* and no /stop in flight (nothing is launched, stopped or resumed), and
\* the answer to a request for jobId j, known or unknown, carries the status
\* the item of j holds at that step ("UNKNOWN" when there is no item).
C21_StatusReadOnly ==
    [][/\ reply' # reply
          => UNCHANGED <<uuids, table, stream, sm, exec, stop, stops, inputs,
                         launches, ghost>>
       /\ \A j \in Ids :
            status_handler(j)
            => /\ reply'.statusCode = 200
               /\ reply'.dbStatus =
                    IF table[j].jobId = 0 THEN "UNKNOWN" ELSE table[j].status]_vars

\* C21's case: the answer being returned reports the status of a job that
\* a /stop has stopped
C21_StatusOfStoppedJob ==
    /\ reply.statusCode = 200
    /\ reply.dbStatus = "STOPPING"
    /\ \E j \in Ids : table[j].status = "STOPPING" /\ j \in ghost.stopped
====
